---- MODULE Spec2Model ----
(***************************************************************************)
(* A model of cred, a local-first command-line credential manager.         *)
(*                                                                         *)
(* The state is what survives one invocation of the CLI: the project      *)
(* directory (.cred/project.toml, .cred/vault.enc), the project's master   *)
(* key in the system credential store, the global config's target table   *)
(* and the keystore of target tokens.  Every command handler of            *)
(* main.rs::run is one action; `out` records what the last invocation did: *)
(* its exit code and the ordered effects (remote requests, keystore and    *)
(* file writes) it performed.                                              *)
(*                                                                         *)
(* The repo-binding reconciler is a pure function; it is checked under     *)
(* SpecRepo, whose initial states enumerate its inputs.  SpecTarget runs   *)
(* only the commands that write the target table and the keystore.         *)
(*                                                                         *)
(* SpecVault runs the Vault API (load, set, set_description, save) on one  *)
(* vault file, with entries and the encrypted envelope in full.            *)
(* SpecImport runs import_entries entry by entry.  SpecEnv takes an env    *)
(* file through parse_env_file, import_entries, export_env_file and        *)
(* parse_env_file again.  SpecBatch runs one Github::push or               *)
(* Github::delete against a remote set of secrets.  SpecMeta runs the      *)
(* calls of the Vault API that write entries.  SpecFormat applies          *)
(* detect_format to values described by their structure.                   *)
(***************************************************************************)
EXTENDS Integers, Sequences, FiniteSets, TLC

VARIABLES
    envMasterKey,   \* CRED_MASTER_KEY_B64 of the environment (NoKey: unset)
    backend,        \* CRED_KEYSTORE: "memory", "file" or "keyring"
    project,        \* .cred/ and project.toml
    masterKeyStore, \* credential store record ("cred-cli", project id)
    vaultFile,      \* .cred/vault.enc
    cfgTargets,     \* targets of global.toml that carry an auth_ref
    keystore,       \* target tokens by auth_ref, in the selected backend
    out,            \* the last invocation: command, exit code, effects
    rb,             \* SpecRepo: inputs and result of resolve_repo_binding
    vs,             \* SpecVault: a vault file and the Vault value opened on it
    im,             \* SpecImport: a run of import_entries, entry by entry
    ef,             \* SpecEnv: an env file parsed, imported, exported, parsed
    gb,             \* SpecBatch: one batch push or delete of the Github adapter
    fd,             \* SpecFormat: a value and the format detected for it
    mt              \* SpecMeta: the entries of a Vault under its mutators

vars == <<envMasterKey, backend, project, masterKeyStore, vaultFile,
          cfgTargets, keystore, out, rb, vs, im, ef, gb, fd, mt>>

cliVars == <<envMasterKey, backend, project, masterKeyStore, vaultFile,
             cfgTargets, keystore, out>>

(***************************************************************************)
(* Bounds of the model.                                                    *)
(***************************************************************************)
MaxPruneKeys == 2  \* longest key list given to prune

(***************************************************************************)
(* Exit codes (enum ExitCode).                                             *)
(***************************************************************************)
ExitOk == 0
ExitUserError == 1
ExitNotAuthenticated == 2
ExitNetworkError == 3
ExitTargetRejected == 4
ExitVaultError == 5
ExitGitError == 6

\* main(): the JSON error code printed for an exit code when --json is set.
JsonCode(code) ==
    CASE code = ExitNotAuthenticated -> "NOT_AUTHENTICATED"
      [] code = ExitGitError -> "GIT_ERROR"
      [] code = ExitTargetRejected -> "TARGET_REJECTED"
      [] code = ExitVaultError -> "VAULT_ERROR"
      [] code = ExitNetworkError -> "NETWORK_ERROR"
      [] OTHER -> "USER_ERROR"

\* impl From<anyhow::Error> for AppError: what `?` makes of an anyhow error.
FromAnyhow == ExitUserError

(***************************************************************************)
(* Value domains.                                                          *)
(***************************************************************************)
NoKey == "none"
ZeroKey == "zero"          \* the 32 zero bytes
Keys == {ZeroKey, "k1"}
Names == {"A", "B"}
Values == {"v1"}
Tokens == {"t1"}
NoToken == "none"
EmptyPassword == ""
Targets == {"github"}
Backends == {"memory", "file", "keyring"}
NoSlug == "none"
Slugs == {"org/a", "org/b"}
SlugOpt == Slugs \cup {NoSlug}
Verbs == {"push", "prune"}

\* format!("cred:target:{}:default", target)
AuthRef(target) == <<"cred", "target", target, "default">>

EmptyMap == [n \in {} |-> "v1"]

\* Effects of one invocation, in the order they happen.
Ev(op) == [op |-> op, key |-> "-", status |-> "-"]
EvK(op, k, s) == [op |-> op, key |-> k, status |-> s]
HasOp(trace, op) == \E i \in DOMAIN trace : trace[i].op = op
HasEv(trace, op, status) ==
    \E i \in 1..Len(trace) : trace[i].op = op /\ trace[i].status = status
\* every `b` of the trace comes after some `a`
Precedes(trace, a, b) ==
    \A j \in DOMAIN trace :
        trace[j].op = b => \E i \in 1..(j - 1) : trace[i].op = a

RECURSIVE SeqsUpTo(_, _)
SeqsUpTo(S, n) ==
    IF n = 0 THEN {<<>>}
    ELSE LET shorter == SeqsUpTo(S, n - 1)
         IN shorter \cup {Append(s, x) : s \in {t \in shorter : Len(t) = n - 1}, x \in S}

Range(s) == {s[i] : i \in DOMAIN s}
Restrict(f, D) == [x \in D |-> f[x]]

(***************************************************************************)
(* vault.rs                                                                *)
(***************************************************************************)
CURRENT_VERSION == 2

NoVaultFile == [exists |-> FALSE, version |-> 0, key |-> NoKey, secrets |-> EmptyMap]

\* Vault::load: a missing file is an empty vault; the envelope decrypts only
\* under the key that encrypted it; versions 1 and 2 are accepted.
VaultLoad(file, key) ==
    IF ~file.exists THEN [ok |-> TRUE, key |-> key, secrets |-> EmptyMap]
    ELSE IF file.key # key THEN [ok |-> FALSE, key |-> key, secrets |-> EmptyMap]
    ELSE IF file.version \in {1, 2} THEN [ok |-> TRUE, key |-> key, secrets |-> file.secrets]
    ELSE [ok |-> FALSE, key |-> key, secrets |-> EmptyMap]

\* Vault::save: always a version-2 envelope under the vault's own key.
VaultSave(v) ==
    [exists |-> TRUE, version |-> CURRENT_VERSION, key |-> v.key, secrets |-> v.secrets]

\* fs::write of the envelope onto vault.enc: it either completes, or fails
\* before the file is opened, or fails after the file was truncated.
SaveOutcomes == {"ok", "denied", "partial"}
GarbledFile == [exists |-> TRUE, version |-> 0, key |-> NoKey, secrets |-> EmptyMap]
VaultSaveTo(file, v, io) ==
    CASE io = "ok" -> [ok |-> TRUE, file |-> VaultSave(v)]
      [] io = "denied" -> [ok |-> FALSE, file |-> file]
      [] OTHER -> [ok |-> FALSE, file |-> GarbledFile]

\* Vault::set / Vault::remove on the name-to-value map.
VaultSet(secrets, name, value) ==
    [n \in (DOMAIN secrets) \cup {name} |-> IF n = name THEN value ELSE secrets[n]]
VaultRemove(secrets, name) == Restrict(secrets, (DOMAIN secrets) \ {name})

(***************************************************************************)
(* project.rs                                                              *)
(***************************************************************************)
NoProject == [exists |-> FALSE, git_repo |-> NoSlug]

\* Project::get_master_key: the environment override, else the credential
\* store record of the project.
GetMasterKey ==
    IF envMasterKey # NoKey THEN [ok |-> TRUE, key |-> envMasterKey]
    ELSE IF masterKeyStore = NoKey THEN [ok |-> FALSE, key |-> NoKey]
    ELSE [ok |-> TRUE, key |-> masterKeyStore]

\* init_at: the key handed to Vault::load for the initial save.  The buffer
\* is zeroed (key.fill(0)) after it was stored and before it is used.
InitVaultKey(minted) == ZeroKey

\* init_at.  `minted` is the random key, `detected` the git slug found,
\* `keyringOk` whether the credential store accepted the key, `saveIo` how
\* the write of vault.enc went.
RunInit(minted, detected, keyringOk, saveIo) ==
    LET created == [exists |-> TRUE, git_repo |-> detected]
    IN IF project.exists THEN
           [project |-> project, masterKeyStore |-> masterKeyStore, vaultFile |-> vaultFile,
            exit |-> FromAnyhow, trace |-> <<>>]
       ELSE IF ~keyringOk THEN
           [project |-> created, masterKeyStore |-> masterKeyStore, vaultFile |-> vaultFile,
            exit |-> FromAnyhow, trace |-> <<Ev("project_toml_write")>>]
       ELSE
           LET v == VaultLoad(vaultFile, InitVaultKey(minted))
               w == VaultSaveTo(vaultFile, v, saveIo)
           IN IF ~v.ok \/ ~w.ok THEN
                  [project |-> created, masterKeyStore |-> minted,
                   vaultFile |-> IF v.ok THEN w.file ELSE vaultFile,
                   exit |-> FromAnyhow,
                   trace |-> <<Ev("project_toml_write"), Ev("master_key_store")>>]
              ELSE
                  [project |-> created, masterKeyStore |-> minted, vaultFile |-> w.file,
                   exit |-> ExitOk,
                   trace |-> <<Ev("project_toml_write"), Ev("master_key_store"),
                               Ev("vault_save")>>]

\* No invocation is running: the last one has exited.
Idle == out.cmd = "-"

NoMem == [loaded |-> FALSE, secrets |-> EmptyMap]
Mem(secrets) == [loaded |-> TRUE, secrets |-> secrets]
\* `yes`, `dry_run`: the --yes and --dry-run flags of the invocation (`yes`
\* where the handler has a --yes gate); `ci`: whether CI was set in the
\* environment of a prune.
Out(cmd, exit, trace, mem) ==
    [cmd |-> cmd, exit |-> exit, trace |-> trace, mem |-> mem,
     yes |-> FALSE, dry_run |-> FALSE, ci |-> FALSE]
OutF(cmd, exit, trace, mem, yes, dry_run) ==
    [Out(cmd, exit, trace, mem) EXCEPT !.yes = yes, !.dry_run = dry_run]

\* Commands::Init
CmdInit ==
    /\ Idle
    /\ \E minted \in Keys, detected \in SlugOpt, keyringOk \in BOOLEAN,
          saveIo \in SaveOutcomes, dry_run \in BOOLEAN :
           LET r == RunInit(minted, detected, keyringOk, saveIo)
           IN /\ project' = r.project
              /\ masterKeyStore' = r.masterKeyStore
              /\ vaultFile' = r.vaultFile
              /\ out' = OutF("init", r.exit, r.trace, NoMem, FALSE, dry_run)
              /\ UNCHANGED <<envMasterKey, backend, cfgTargets, keystore, rb, vs, im, ef, gb, fd, mt>>

(***************************************************************************)
(* config.rs: keystore backends and the target table of global.toml        *)
(***************************************************************************)
NoKeystore == [present |-> FALSE, map |-> [r \in {} |-> NoToken]]
KsOutcomes == {"ok", "fail", "ignored"}
GetOutcomes == {"ok", "fail"}

KsPut(ks, ref, token) ==
    [present |-> ks.present \/ backend = "file",
     map |-> [r \in (DOMAIN ks.map) \cup {ref} |-> IF r = ref THEN token ELSE ks.map[r]]]
KsDrop(ks, ref) ==
    [present |-> ks.present, map |-> Restrict(ks.map, (DOMAIN ks.map) \ {ref})]

\* keystore_set: the memory backend cannot fail; the file backend re-reads
\* and re-writes the whole file; the keyring backend calls set_password.
KeystoreSet(ks, ref, token, io) ==
    IF backend = "memory" \/ io # "fail"
    THEN [ok |-> TRUE, ks |-> KsPut(ks, ref, token)]
    ELSE [ok |-> FALSE, ks |-> ks]

\* keystore_get: a missing record is None, not an error; the keyring backend
\* turns every error into None; the file backend fails on an unreadable file.
KeystoreGet(ks, ref, io) ==
    IF backend = "file" /\ ks.present /\ io = "fail" THEN [ok |-> FALSE, token |-> NoToken]
    ELSE IF backend = "keyring" /\ io = "fail" THEN [ok |-> TRUE, token |-> NoToken]
    ELSE IF ref \in DOMAIN ks.map THEN [ok |-> TRUE, token |-> ks.map[ref]]
    ELSE [ok |-> TRUE, token |-> NoToken]

\* keystore_remove: memory removes the record; file returns Ok when there is
\* no file, else rewrites the file without the record; keyring overwrites the
\* password with "" and ignores the result of that write.
KeystoreRemove(ks, ref, io) ==
    CASE backend = "memory" -> [ok |-> TRUE, ks |-> KsDrop(ks, ref)]
      [] backend = "file" ->
            IF ~ks.present THEN [ok |-> TRUE, ks |-> ks]
            ELSE IF io = "fail" THEN [ok |-> FALSE, ks |-> ks]
            ELSE [ok |-> TRUE, ks |-> KsDrop(ks, ref)]
      [] OTHER ->
            IF io = "fail" THEN [ok |-> FALSE, ks |-> ks]
            ELSE IF io = "ignored" THEN [ok |-> TRUE, ks |-> ks]
            ELSE [ok |-> TRUE, ks |-> KsPut(ks, ref, EmptyPassword)]

\* get_target_token: no entry in the config is None; else the keystore record.
GetTargetToken(target, io) ==
    IF target \notin cfgTargets THEN [ok |-> TRUE, token |-> NoToken]
    ELSE KeystoreGet(keystore, AuthRef(target), io)

\* set_target_token: the config file is written first, the keystore second.
SetTargetToken(target, token, cfgOk, io) ==
    IF ~cfgOk THEN [ok |-> FALSE, cfg |-> cfgTargets, ks |-> keystore, trace |-> <<>>]
    ELSE LET w == KeystoreSet(keystore, AuthRef(target), token, io)
         IN [ok |-> w.ok, cfg |-> cfgTargets \cup {target}, ks |-> w.ks,
             trace |-> IF w.ok THEN <<Ev("config_write"), Ev("keystore_set")>>
                       ELSE <<Ev("config_write")>>]

\* remove_target_token swapped: the config is rewritten before the keystore
\* record is removed.
RemoveTargetTokenMutConfigFirst(target, cfgOk, io) ==
    IF target \notin cfgTargets
    THEN [ok |-> TRUE, cfg |-> cfgTargets, ks |-> keystore, trace |-> <<>>]
    ELSE IF ~cfgOk
    THEN [ok |-> FALSE, cfg |-> cfgTargets, ks |-> keystore, trace |-> <<>>]
    ELSE LET d == KeystoreRemove(keystore, AuthRef(target), io)
         IN [ok |-> d.ok, cfg |-> cfgTargets \ {target}, ks |-> d.ks,
             trace |-> <<Ev("config_write"),
                         EvK("keystore_remove", "-", IF d.ok THEN "ok" ELSE "err")>>]

\* remove_target_token: the keystore record is removed first; only then is
\* the config rewritten without the target.
RemoveTargetToken(target, cfgOk, io) ==
    IF target \notin cfgTargets
    THEN [ok |-> TRUE, cfg |-> cfgTargets, ks |-> keystore, trace |-> <<>>]
    ELSE LET d == KeystoreRemove(keystore, AuthRef(target), io)
         IN IF ~d.ok
            THEN [ok |-> FALSE, cfg |-> cfgTargets, ks |-> keystore,
                  trace |-> <<EvK("keystore_remove", "-", "err")>>]
            ELSE IF ~cfgOk
            THEN [ok |-> FALSE, cfg |-> cfgTargets, ks |-> d.ks,
                  trace |-> <<EvK("keystore_remove", "-", "ok")>>]
            ELSE [ok |-> TRUE, cfg |-> cfgTargets \ {target}, ks |-> d.ks,
                  trace |-> <<EvK("keystore_remove", "-", "ok"), Ev("config_write")>>]

(***************************************************************************)
(* targets: the adapter of the only target compiled in, Github, and the    *)
(* defaults of trait TargetAdapter it does not override.                   *)
(***************************************************************************)
\* Github::revoke_auth_token only prints and returns Ok.
RevokeAuthToken(target) == "ok"
\* TargetAdapter::revoke_secret (default, not overridden by Github): bails.
RevokeSecret(target) == "err"

(***************************************************************************)
(* main.rs: the target commands                                            *)
(***************************************************************************)
\* require_yes that lets every invocation through
RequireYesMutAlways(yes) == TRUE

\* require_yes
RequireYes(yes) == yes
\* the refusal of require_yes: "{action} is destructive; rerun with --yes"
Refused == <<EvK("require_yes", "-", "refused")>>

\* TargetAction::Set with handle_target_set and read_token_securely.
RunTargetSet(target, dry_run, tokenArg, non_interactive, prompted, cfgOk, io) ==
    IF dry_run THEN [exit |-> ExitOk, cfg |-> cfgTargets, ks |-> keystore, trace |-> <<>>]
    ELSE IF tokenArg = NoToken /\ (non_interactive \/ prompted = EmptyPassword)
    THEN [exit |-> ExitUserError, cfg |-> cfgTargets, ks |-> keystore, trace |-> <<>>]
    ELSE LET token == IF tokenArg # NoToken THEN tokenArg ELSE prompted
             s == SetTargetToken(target, token, cfgOk, io)
         IN [exit |-> IF s.ok THEN ExitOk ELSE ExitNotAuthenticated,
             cfg |-> s.cfg, ks |-> s.ks, trace |-> s.trace]

\* TargetAction::Revoke
RunTargetRevoke(target, yes, dry_run, getIo, cfgOk, io) ==
    IF ~RequireYes(yes)
    THEN [exit |-> ExitUserError, cfg |-> cfgTargets, ks |-> keystore, trace |-> Refused]
    ELSE IF dry_run
    THEN [exit |-> ExitOk, cfg |-> cfgTargets, ks |-> keystore, trace |-> <<>>]
    ELSE LET t == GetTargetToken(target, getIo)
         IN IF ~t.ok
            THEN [exit |-> FromAnyhow, cfg |-> cfgTargets, ks |-> keystore, trace |-> <<>>]
            ELSE IF t.token = NoToken
            THEN [exit |-> ExitOk, cfg |-> cfgTargets, ks |-> keystore, trace |-> <<>>]
            ELSE IF RevokeAuthToken(target) # "ok"
            THEN [exit |-> ExitOk, cfg |-> cfgTargets, ks |-> keystore,
                  trace |-> <<Ev("revoke_auth_token_failed")>>]
            ELSE LET r == RemoveTargetToken(target, cfgOk, io)
                 IN [exit |-> IF r.ok THEN ExitOk ELSE FromAnyhow,
                     cfg |-> r.cfg, ks |-> r.ks,
                     trace |-> <<Ev("revoke_auth_token")>> \o r.trace]

CmdTargetSet ==
    /\ Idle
    /\ \E target \in Targets, dry_run \in BOOLEAN, tokenArg \in Tokens \cup {NoToken},
          non_interactive \in BOOLEAN, prompted \in Tokens \cup {EmptyPassword},
          cfgOk \in BOOLEAN, io \in KsOutcomes :
           LET r == RunTargetSet(target, dry_run, tokenArg, non_interactive, prompted, cfgOk, io)
           IN /\ cfgTargets' = r.cfg
              /\ keystore' = r.ks
              /\ out' = OutF("target_set", r.exit, r.trace, NoMem, FALSE, dry_run)
              /\ UNCHANGED <<envMasterKey, backend, project, masterKeyStore, vaultFile, rb, vs, im, ef, gb, fd, mt>>

CmdTargetRevoke ==
    /\ Idle
    /\ \E target \in Targets, yes \in BOOLEAN, dry_run \in BOOLEAN,
          getIo \in GetOutcomes, cfgOk \in BOOLEAN, io \in KsOutcomes :
           LET r == RunTargetRevoke(target, yes, dry_run, getIo, cfgOk, io)
           IN /\ cfgTargets' = r.cfg
              /\ keystore' = r.ks
              /\ out' = OutF("target_revoke", r.exit, r.trace, NoMem, yes, dry_run)
              /\ UNCHANGED <<envMasterKey, backend, project, masterKeyStore, vaultFile, rb, vs, im, ef, gb, fd, mt>>

(***************************************************************************)
(* main.rs, config.rs: config unset                                        *)
(***************************************************************************)
ConfigKeys == {"targets.github", "targets.github.auth_ref", "preferences.color_output"}

\* unset_path on the target table: the auth_refs left after the dotted path
\* was removed.
UnsetPath(cfg, key) ==
    IF key \in {"targets.github", "targets.github.auth_ref"} THEN cfg \ {"github"} ELSE cfg

\* ConfigAction::Unset with config_unset: the file is rewritten whether or
\* not the path existed.
RunConfigUnset(key, yes, dry_run, cfgOk) ==
    IF ~RequireYes(yes) THEN [exit |-> ExitUserError, cfg |-> cfgTargets, trace |-> Refused]
    ELSE IF dry_run THEN [exit |-> ExitOk, cfg |-> cfgTargets, trace |-> <<>>]
    ELSE IF ~cfgOk THEN [exit |-> FromAnyhow, cfg |-> cfgTargets, trace |-> <<>>]
    ELSE [exit |-> ExitOk, cfg |-> UnsetPath(cfgTargets, key), trace |-> <<Ev("config_write")>>]

CmdConfigUnset ==
    /\ Idle
    /\ \E key \in ConfigKeys, yes \in BOOLEAN, dry_run \in BOOLEAN, cfgOk \in BOOLEAN :
           LET r == RunConfigUnset(key, yes, dry_run, cfgOk)
           IN /\ cfgTargets' = r.cfg
              /\ out' = OutF("config_unset", r.exit, r.trace, NoMem, yes, dry_run)
              /\ UNCHANGED <<envMasterKey, backend, project, masterKeyStore, vaultFile,
                             keystore, rb, vs, im, ef, gb, fd, mt>>

(***************************************************************************)
(* main.rs: the secret commands                                            *)
(***************************************************************************)
\* Commands::Secret, before the action is matched: Project::find,
\* get_master_key and Vault::load, each ending the command on an error.
OpenVault ==
    IF ~project.exists THEN [ok |-> FALSE, key |-> NoKey, secrets |-> EmptyMap]
    ELSE LET k == GetMasterKey
         IN IF ~k.ok THEN [ok |-> FALSE, key |-> NoKey, secrets |-> EmptyMap]
            ELSE VaultLoad(vaultFile, k.key)

Res(exit, file, trace, mem) == [exit |-> exit, file |-> file, trace |-> trace, mem |-> mem]

\* SecretAction::Set
RunSecretSet(key, value, dry_run, saveIo) ==
    LET v == OpenVault
    IN IF ~v.ok THEN Res(FromAnyhow, vaultFile, <<>>, NoMem)
       ELSE IF dry_run THEN Res(ExitOk, vaultFile, <<>>, Mem(v.secrets))
       ELSE LET m == VaultSet(v.secrets, key, value)
                w == VaultSaveTo(vaultFile, [key |-> v.key, secrets |-> m], saveIo)
            IN Res(IF w.ok THEN ExitOk ELSE FromAnyhow, w.file,
                   <<EvK("vault_set", key, "-"), Ev("vault_save")>>, Mem(m))

\* SecretAction::Remove
RunSecretRemove(key, yes, dry_run, saveIo) ==
    LET v == OpenVault
    IN IF ~v.ok THEN Res(FromAnyhow, vaultFile, <<>>, NoMem)
       ELSE IF ~RequireYes(yes) THEN Res(ExitUserError, vaultFile, Refused, Mem(v.secrets))
       ELSE IF dry_run THEN Res(ExitOk, vaultFile, <<>>, Mem(v.secrets))
       ELSE IF key \notin DOMAIN v.secrets
       THEN Res(ExitOk, vaultFile, <<EvK("vault_remove", key, "-")>>, Mem(v.secrets))
       ELSE LET m == VaultRemove(v.secrets, key)
                w == VaultSaveTo(vaultFile, [key |-> v.key, secrets |-> m], saveIo)
            IN Res(IF w.ok THEN ExitOk ELSE FromAnyhow, w.file,
                   <<EvK("vault_remove", key, "-"), Ev("vault_save")>>, Mem(m))

\* SecretAction::Revoke with the local removal done before the remote call.
RunSecretRevokeMutLocalFirst(key, target, yes, dry_run, getIo, saveIo) ==
    LET v == OpenVault
    IN IF ~v.ok THEN Res(FromAnyhow, vaultFile, <<>>, NoMem)
       ELSE IF ~RequireYes(yes) THEN Res(ExitUserError, vaultFile, Refused, Mem(v.secrets))
       ELSE IF dry_run THEN Res(ExitOk, vaultFile, <<>>, Mem(v.secrets))
       ELSE LET t == GetTargetToken(target, getIo)
            IN IF ~t.ok THEN Res(FromAnyhow, vaultFile, <<>>, Mem(v.secrets))
               ELSE IF t.token = NoToken \/ key \notin DOMAIN v.secrets
               THEN Res(ExitOk, vaultFile, <<>>, Mem(v.secrets))
               ELSE LET m == VaultRemove(v.secrets, key)
                        w == VaultSaveTo(vaultFile, [key |-> v.key, secrets |-> m], saveIo)
                    IN Res(IF w.ok THEN ExitOk ELSE FromAnyhow, w.file,
                           <<EvK("vault_remove", key, "-"), Ev("vault_save"),
                             EvK("revoke_secret", key, RevokeSecret(target))>>, Mem(m))

\* SecretAction::Revoke
RunSecretRevoke(key, target, yes, dry_run, getIo, saveIo) ==
    LET v == OpenVault
    IN IF ~v.ok THEN Res(FromAnyhow, vaultFile, <<>>, NoMem)
       ELSE IF ~RequireYes(yes) THEN Res(ExitUserError, vaultFile, Refused, Mem(v.secrets))
       ELSE IF dry_run THEN Res(ExitOk, vaultFile, <<>>, Mem(v.secrets))
       ELSE LET t == GetTargetToken(target, getIo)
            IN IF ~t.ok THEN Res(FromAnyhow, vaultFile, <<>>, Mem(v.secrets))
               ELSE IF t.token = NoToken \/ key \notin DOMAIN v.secrets
               THEN Res(ExitOk, vaultFile, <<>>, Mem(v.secrets))
               ELSE IF RevokeSecret(target) # "ok"
               THEN Res(ExitOk, vaultFile, <<EvK("revoke_secret", key, "err")>>,
                        Mem(v.secrets))
               ELSE LET m == VaultRemove(v.secrets, key)
                        w == VaultSaveTo(vaultFile, [key |-> v.key, secrets |-> m], saveIo)
                    IN Res(IF w.ok THEN ExitOk ELSE FromAnyhow, w.file,
                           <<EvK("revoke_secret", key, "ok"),
                             EvK("vault_remove", key, "-"), Ev("vault_save")>>, Mem(m))

CmdSecretSet ==
    /\ Idle
    /\ \E key \in Names, value \in Values, dry_run \in BOOLEAN, saveIo \in SaveOutcomes :
           LET r == RunSecretSet(key, value, dry_run, saveIo)
           IN /\ vaultFile' = r.file
              /\ out' = OutF("secret_set", r.exit, r.trace, r.mem, FALSE, dry_run)
              /\ UNCHANGED <<envMasterKey, backend, project, masterKeyStore, cfgTargets,
                             keystore, rb, vs, im, ef, gb, fd, mt>>

CmdSecretRemove ==
    /\ Idle
    /\ \E key \in Names, yes \in BOOLEAN, dry_run \in BOOLEAN, saveIo \in SaveOutcomes :
           LET r == RunSecretRemove(key, yes, dry_run, saveIo)
           IN /\ vaultFile' = r.file
              /\ out' = OutF("secret_remove", r.exit, r.trace, r.mem, yes, dry_run)
              /\ UNCHANGED <<envMasterKey, backend, project, masterKeyStore, cfgTargets,
                             keystore, rb, vs, im, ef, gb, fd, mt>>

CmdSecretRevoke ==
    /\ Idle
    /\ \E key \in Names, target \in Targets, yes \in BOOLEAN, dry_run \in BOOLEAN,
          getIo \in GetOutcomes, saveIo \in SaveOutcomes :
           LET r == RunSecretRevoke(key, target, yes, dry_run, getIo, saveIo)
           IN /\ vaultFile' = r.file
              /\ out' = OutF("secret_revoke", r.exit, r.trace, r.mem, yes, dry_run)
              /\ UNCHANGED <<envMasterKey, backend, project, masterKeyStore, cfgTargets,
                             keystore, rb, vs, im, ef, gb, fd, mt>>

(***************************************************************************)
(* project.rs: the repo-binding reconciler                                 *)
(***************************************************************************)
\* Ok(slug) and Err(RepoBindingError { kind, error }); `msg` is what the error
\* text is formatted from: the verb and the two slugs that disagree.
RbOk(slug) == [kind |-> "ok", slug |-> slug, msg |-> <<>>]
RbErr(kind, verb, x, y) == [kind |-> kind, slug |-> NoSlug, msg |-> <<verb, x, y>>]

\* resolve_repo_binding with the bound repo compared before the detected one.
ResolveRepoBindingMutBoundFirst(detected, bound, provided, verb) ==
    IF provided # NoSlug THEN
        IF bound # NoSlug /\ bound # provided THEN RbErr("git", verb, provided, bound)
        ELSE IF detected # NoSlug /\ detected # provided
        THEN RbErr("user", verb, provided, detected)
        ELSE RbOk(provided)
    ELSE IF detected # NoSlug THEN
        IF bound # NoSlug /\ bound # detected THEN RbErr("git", verb, detected, bound)
        ELSE RbOk(detected)
    ELSE RbOk(bound)

\* resolve_repo_binding that takes --repo without looking at the bound repo
ResolveRepoBindingMutTrustProvided(detected, bound, provided, verb) ==
    IF provided # NoSlug THEN
        IF detected # NoSlug /\ detected # provided
        THEN RbErr("user", verb, provided, detected)
        ELSE RbOk(provided)
    ELSE IF detected # NoSlug THEN
        IF bound # NoSlug /\ bound # detected THEN RbErr("git", verb, detected, bound)
        ELSE RbOk(detected)
    ELSE RbOk(bound)

\* resolve_repo_binding: RepoBindingErrorKind::User / ::Git, or the slug.
ResolveRepoBinding(detected, bound, provided, verb) ==
    IF provided # NoSlug THEN
        IF detected # NoSlug /\ detected # provided
        THEN RbErr("user", verb, provided, detected)
        ELSE IF bound # NoSlug /\ bound # provided THEN RbErr("git", verb, provided, bound)
        ELSE RbOk(provided)
    ELSE IF detected # NoSlug THEN
        IF bound # NoSlug /\ bound # detected THEN RbErr("git", verb, detected, bound)
        ELSE RbOk(detected)
    ELSE RbOk(bound)

(***************************************************************************)
(* targets/github.rs                                                       *)
(***************************************************************************)
DeleteStatuses == {"204", "404", "500", "transport"}
PutStatuses == {"201", "500", "transport"}
PubKeyOutcomes == {"ok", "fail"}

\* a delete that goes on with the next key after a rejected DELETE
RECURSIVE GithubDeleteFromMutContinue(_, _, _)
GithubDeleteFromMutContinue(keys, resp, i) ==
    IF i > Len(keys) THEN [ok |-> TRUE, trace |-> <<>>]
    ELSE LET e == EvK("remote_delete", keys[i], resp[i])
             rest == GithubDeleteFromMutContinue(keys, resp, i + 1)
         IN [ok |-> rest.ok /\ resp[i] \in {"204", "404"}, trace |-> <<e>> \o rest.trace]

\* Github::delete: one DELETE per key, in the order of `keys`; a transport
\* error or a status that is neither success nor 404 ends the batch with Err.
RECURSIVE GithubDeleteFrom(_, _, _)
GithubDeleteFrom(keys, resp, i) ==
    IF i > Len(keys) THEN [ok |-> TRUE, trace |-> <<>>]
    ELSE LET e == EvK("remote_delete", keys[i], resp[i])
         IN IF resp[i] \in {"204", "404"}
            THEN LET rest == GithubDeleteFrom(keys, resp, i + 1)
                 IN [ok |-> rest.ok, trace |-> <<e>> \o rest.trace]
            ELSE [ok |-> FALSE, trace |-> <<e>>]
GithubDelete(keys, resp) == GithubDeleteFrom(keys, resp, 1)

\* Github::push: GET the public key, then one PUT per secret in the map's
\* iteration order; a transport error ends the batch with Err, a non-success
\* status is reported and the loop goes on.
RECURSIVE GithubPutFrom(_, _, _)
GithubPutFrom(order, resp, i) ==
    IF i > Len(order) THEN [ok |-> TRUE, trace |-> <<>>]
    ELSE LET e == EvK("remote_put", order[i], resp[order[i]])
         IN IF resp[order[i]] = "transport" THEN [ok |-> FALSE, trace |-> <<e>>]
            ELSE LET rest == GithubPutFrom(order, resp, i + 1)
                 IN [ok |-> rest.ok, trace |-> <<e>> \o rest.trace]
GithubPush(pubkey, order, resp) ==
    IF pubkey # "ok" THEN [ok |-> FALSE, trace |-> <<EvK("remote_get_public_key", "-", pubkey)>>]
    ELSE LET r == GithubPutFrom(order, resp, 1)
         IN [ok |-> r.ok, trace |-> <<EvK("remote_get_public_key", "-", "ok")>> \o r.trace]

\* The iteration orders of a HashMap with key set S.
Perms(S) == {s \in [1..Cardinality(S) -> S] : Range(s) = S}

(***************************************************************************)
(* main.rs: push and prune                                                 *)
(***************************************************************************)
\* the inline reconciliation of push with the bound repo compared first
InlineRepoPushMutBoundFirst(detected, bound, provided) ==
    IF provided # NoSlug THEN
        IF bound # NoSlug /\ bound # provided THEN RbErr("git", "push", provided, bound)
        ELSE IF detected # NoSlug /\ detected # provided
        THEN RbErr("user", "push", provided, detected)
        ELSE RbOk(provided)
    ELSE IF detected # NoSlug THEN
        IF bound # NoSlug /\ bound # detected THEN RbErr("git", "push", detected, bound)
        ELSE RbOk(detected)
    ELSE IF bound # NoSlug THEN RbOk(bound)
    ELSE RbOk(NoSlug)

\* Commands::Push: the reconciliation written inline in the handler.
InlineRepoPush(detected, bound, provided) ==
    IF provided # NoSlug THEN
        IF detected # NoSlug /\ detected # provided THEN RbErr("user", "push", provided, detected)
        ELSE IF bound # NoSlug /\ bound # provided THEN RbErr("git", "push", provided, bound)
        ELSE RbOk(provided)
    ELSE IF detected # NoSlug THEN
        IF bound # NoSlug /\ bound # detected THEN RbErr("git", "push", detected, bound)
        ELSE RbOk(detected)
    ELSE IF bound # NoSlug THEN RbOk(bound)
    ELSE RbOk(NoSlug)

\* Commands::Prune: the reconciliation written inline in the handler.
InlineRepoPrune(detected, bound, provided) ==
    IF provided # NoSlug THEN
        IF detected # NoSlug /\ detected # provided THEN RbErr("user", "prune", provided, detected)
        ELSE IF bound # NoSlug /\ bound # provided THEN RbErr("git", "prune", provided, bound)
        ELSE RbOk(provided)
    ELSE IF detected # NoSlug THEN
        IF bound # NoSlug /\ bound # detected THEN RbErr("git", "prune", detected, bound)
        ELSE RbOk(detected)
    ELSE IF bound # NoSlug THEN RbOk(bound)
    ELSE RbOk(NoSlug)

RepoExit(kind) == IF kind = "user" THEN ExitUserError ELSE ExitGitError

\* Commands::Push: the secrets handed to the adapter: the named keys (all
\* keys when none is named) that the vault holds.
PushFiltered(secrets, keys) ==
    Restrict(secrets, IF keys # {} THEN keys \cap DOMAIN secrets ELSE DOMAIN secrets)

\* Commands::Push.  `keys` is the set of the names given (the handler only
\* inserts them into a HashMap).
RunPush(target, keys, provided, detected, dry_run, getIo, pubkey, order, resp) ==
    LET t == GetTargetToken(target, getIo)
        v == OpenVault
        rr == InlineRepoPush(detected, project.git_repo, provided)
        seen == <<EvK("get_target_token", "-",
                      IF ~t.ok THEN "err" ELSE IF t.token = NoToken THEN "none" ELSE "some")>>
    IN IF ~t.ok \/ t.token = NoToken THEN Res(FromAnyhow, vaultFile, seen, NoMem)
       ELSE IF ~v.ok THEN Res(FromAnyhow, vaultFile, seen, NoMem)
       ELSE IF rr.kind # "ok" THEN Res(RepoExit(rr.kind), vaultFile, seen, Mem(v.secrets))
       ELSE IF target = "github" /\ rr.slug = NoSlug
       THEN Res(ExitGitError, vaultFile, seen, Mem(v.secrets))
       ELSE IF DOMAIN PushFiltered(v.secrets, keys) = {} \/ dry_run
       THEN Res(ExitOk, vaultFile, seen, Mem(v.secrets))
       ELSE Res(ExitOk, vaultFile, seen \o GithubPush(pubkey, order, resp).trace,
                Mem(v.secrets))

\* Commands::Prune with the local removal and save done before the remote
\* delete.
RunPruneMutLocalFirst(target, keys, provided, detected, yes, dry_run, getIo, resp) ==
    LET t == GetTargetToken(target, getIo)
        bound == IF project.exists THEN project.git_repo ELSE NoSlug
        rr == InlineRepoPrune(detected, bound, provided)
        seen == <<EvK("get_target_token", "-",
                      IF ~t.ok THEN "err" ELSE IF t.token = NoToken THEN "none" ELSE "some")>>
        v == OpenVault
        m == Restrict(v.secrets, (DOMAIN v.secrets) \ Range(keys))
        d == GithubDelete(keys, resp)
    IN IF ~RequireYes(yes) THEN Res(ExitUserError, vaultFile, Refused, NoMem)
       ELSE IF dry_run THEN Res(ExitOk, vaultFile, <<>>, NoMem)
       ELSE IF ~t.ok \/ t.token = NoToken THEN Res(FromAnyhow, vaultFile, seen, NoMem)
       ELSE IF keys = <<>> THEN Res(ExitOk, vaultFile, seen, NoMem)
       ELSE IF rr.kind # "ok" THEN Res(RepoExit(rr.kind), vaultFile, seen, NoMem)
       ELSE IF target = "github" /\ rr.slug = NoSlug
       THEN Res(ExitGitError, vaultFile, seen, NoMem)
       ELSE IF ~v.ok THEN Res(FromAnyhow, vaultFile, seen, NoMem)
       ELSE Res(IF d.ok THEN ExitOk ELSE FromAnyhow,
                VaultSave([key |-> v.key, secrets |-> m]),
                seen \o <<Ev("vault_remove"), Ev("vault_save")>> \o d.trace, Mem(m))

\* Commands::Prune.  The handler never opens the vault.
RunPrune(target, keys, provided, detected, yes, dry_run, getIo, resp) ==
    LET t == GetTargetToken(target, getIo)
        bound == IF project.exists THEN project.git_repo ELSE NoSlug
        rr == InlineRepoPrune(detected, bound, provided)
        seen == <<EvK("get_target_token", "-",
                      IF ~t.ok THEN "err" ELSE IF t.token = NoToken THEN "none" ELSE "some")>>
        d == GithubDelete(keys, resp)
    IN IF ~RequireYes(yes) THEN Res(ExitUserError, vaultFile, Refused, NoMem)
       ELSE IF dry_run THEN Res(ExitOk, vaultFile, <<>>, NoMem)
       ELSE IF ~t.ok \/ t.token = NoToken THEN Res(FromAnyhow, vaultFile, seen, NoMem)
       ELSE IF keys = <<>> THEN Res(ExitOk, vaultFile, seen, NoMem)
       ELSE IF rr.kind # "ok" THEN Res(RepoExit(rr.kind), vaultFile, seen, NoMem)
       ELSE IF target = "github" /\ rr.slug = NoSlug
       THEN Res(ExitGitError, vaultFile, seen, NoMem)
       ELSE IF ~d.ok THEN Res(FromAnyhow, vaultFile, seen \o d.trace, NoMem)
       ELSE Res(ExitOk, vaultFile, seen \o d.trace, NoMem)

\* An input the run does not read is fixed: it cannot change the outcome.
Read(cond, S, default) == IF cond THEN S ELSE {default}

KeyLists == SeqsUpTo(Names, MaxPruneKeys)

\* The answers to the DELETEs of a batch of n keys.  An answer after the one
\* that ended the batch is never read: it is fixed.
DeleteResponses(n) ==
    {r \in [1..n -> DeleteStatuses] :
        \A i \in 1..n :
            (\E j \in 1..(i - 1) : r[j] \notin {"204", "404"}) => r[i] = "204"}

CmdPush ==
    /\ Idle
    /\ \E target \in Targets, dry_run \in BOOLEAN, getIo \in GetOutcomes :
       \E keys \in SUBSET Names, provided \in SlugOpt, detected \in SlugOpt :
         LET f == DOMAIN PushFiltered(OpenVault.secrets, keys)
             sends == HasOp(RunPush(target, keys, provided, detected, dry_run, getIo,
                                    "fail", <<>>, <<>>).trace, "remote_get_public_key")
         IN \E pubkey \in Read(sends, PubKeyOutcomes, "ok") :
            \E order \in Read(sends /\ pubkey = "ok", Perms(f), <<>>) :
            \E resp \in Read(sends /\ pubkey = "ok", [f -> PutStatuses], <<>>) :
              LET r == RunPush(target, keys, provided, detected, dry_run, getIo,
                               pubkey, order, resp)
              IN /\ vaultFile' = r.file
                 /\ out' = OutF("push", r.exit, r.trace, r.mem, FALSE, dry_run)
                 /\ UNCHANGED <<envMasterKey, backend, project, masterKeyStore,
                                cfgTargets, keystore, rb, vs, im, ef, gb, fd, mt>>

CmdPrune ==
    /\ Idle
    /\ \E target \in Targets, yes \in BOOLEAN, dry_run \in BOOLEAN, getIo \in GetOutcomes :
       LET authed == HasEv(RunPrune(target, <<>>, NoSlug, NoSlug, yes, dry_run, getIo,
                                    <<>>).trace, "get_target_token", "some")
       IN \E keys \in Read(authed, KeyLists, <<>>) :
          \E provided \in Read(keys # <<>>, SlugOpt, NoSlug),
             detected \in Read(keys # <<>>, SlugOpt, NoSlug) :
            LET all204 == [i \in 1..Len(keys) |-> "204"]
                calls == HasOp(RunPrune(target, keys, provided, detected, yes, dry_run,
                                        getIo, all204).trace, "remote_delete")
            IN \E resp \in Read(calls, DeleteResponses(Len(keys)), all204) :
                 LET r == RunPrune(target, keys, provided, detected, yes, dry_run,
                                   getIo, resp)
                 IN /\ vaultFile' = r.file
                    /\ \E ci \in Read(~yes, BOOLEAN, FALSE) :
                          out' = [OutF("prune", r.exit, r.trace, r.mem, yes, dry_run)
                                    EXCEPT !.ci = ci]
                    /\ UNCHANGED <<envMasterKey, backend, project, masterKeyStore,
                                   cfgTargets, keystore, rb, vs, im, ef, gb, fd, mt>>

NoRb == [detected |-> NoSlug, bound |-> NoSlug, provided |-> NoSlug, verb |-> "push",
         done |-> FALSE, kind |-> "-", slug |-> NoSlug, msg |-> <<>>]

\* SpecBatch, SpecFormat and SpecMeta, not running
NoGb == [on |-> FALSE]
NoFd == [on |-> FALSE]
NoMt == [on |-> FALSE]

(***************************************************************************)
(* vault.rs in full: SecretEntry, the payload, the envelope and the Vault  *)
(* API, run on one vault file under SpecVault.                             *)
(***************************************************************************)
MaxSaves == 2   \* saves in one behaviour
NONCE_LEN == 12 \* bytes of a ChaCha20Poly1305 nonce

\* readings of Utc::now(): an entry carries two of them, and the system
\* clock may step back between two readings
Times == {1, 2}
\* Option::None
NoneOpt == "none"

\* A secret value, by what detect_format reads from it: `pem`: the trimmed
\* value starts with "-----BEGIN "; `json`: it is delimited by braces or
\* brackets and parses; `b64`: is_valid_base64 of it; `nlT`: it contains a
\* newline; `nl`: the untrimmed value contains a newline.
Text(id, pem, json, b64, nlT, nl) ==
    [id |-> id, pem |-> pem, json |-> json, b64 |-> b64, nlT |-> nlT, nl |-> nl]
RawText == Text("v1", FALSE, FALSE, FALSE, FALSE, FALSE)
JsonText == Text("{\"a\":1}", FALSE, TRUE, FALSE, FALSE, FALSE)
Texts == {RawText, JsonText}
Descriptions == {NoneOpt, "d"}

\* Vault::detect_format
DetectFormat(t) ==
    IF t.pem THEN "pem"
    ELSE IF t.json THEN "json"
    ELSE IF ~t.nlT /\ t.b64 THEN "base64"
    ELSE IF t.nl THEN "multiline"
    ELSE "raw"

\* struct SecretEntry
Entry(value, format, hash, created_at, updated_at, description) ==
    [value |-> value, format |-> format, hash |-> hash, created_at |-> created_at,
     updated_at |-> updated_at, description |-> description]

\* SecretEntry serialised without its format
SerEntryMutNoFormat(e) ==
    [f \in {"value", "created_at", "updated_at"} |-> e[f]]

\* Serialize for SecretEntry: hash and description are left out when None.
SerEntry(e) ==
    LET fields == {"value", "format", "created_at", "updated_at"}
                    \cup (IF e.hash = NoneOpt THEN {} ELSE {"hash"})
                    \cup (IF e.description = NoneOpt THEN {} ELSE {"description"})
    IN [f \in fields |-> e[f]]

\* Deserialize for SecretEntry: format defaults to raw, the options to None.
DeEntry(j) ==
    Entry(j["value"],
          IF "format" \in DOMAIN j THEN j["format"] ELSE "raw",
          IF "hash" \in DOMAIN j THEN j["hash"] ELSE NoneOpt,
          j["created_at"],
          j["updated_at"],
          IF "description" \in DOMAIN j THEN j["description"] ELSE NoneOpt)

\* the decrypted payload: a bare name-to-value map in version 1,
\* VaultPayloadV2 since
PayloadV1(map) == [shape |-> "v1", version |-> 1, body |-> map]
PayloadV2(secrets) ==
    [shape |-> "v2", version |-> CURRENT_VERSION,
     body |-> [n \in DOMAIN secrets |-> SerEntry(secrets[n])]]

\* ChaCha20Poly1305: the ciphertext opens under the key and nonce that made it
Encrypt(key, nonce, plain) == [key |-> key, nonce |-> nonce, plain |-> plain]
Decrypt(key, nonce, ct) ==
    IF ct.key = key /\ ct.nonce = nonce
    THEN [ok |-> TRUE, plain |-> ct.plain]
    ELSE [ok |-> FALSE, plain |-> PayloadV1(EmptyMap)]

\* vault.enc: `json`: the content parses as EncryptedVaultFile; `nonceB64`,
\* `ctB64`: the two strings decode; `nonceLen`: bytes of the decoded nonce.
Envelope(version, nonceLen, nonce, ct) ==
    [exists |-> TRUE, json |-> TRUE, version |-> version, nonceB64 |-> TRUE,
     nonceLen |-> nonceLen, nonce |-> nonce, ctB64 |-> TRUE, ct |-> ct]
NoEnvelope ==
    [exists |-> FALSE, json |-> FALSE, version |-> 0, nonceB64 |-> FALSE,
     nonceLen |-> 0, nonce |-> 0, ctB64 |-> FALSE,
     ct |-> Encrypt(NoKey, 0, PayloadV1(EmptyMap))]

LoadOk(secrets) == [res |-> "ok", secrets |-> secrets]
LoadErr == [res |-> "err", secrets |-> EmptyMap]
LoadPanic == [res |-> "panic", secrets |-> EmptyMap]

\* Vault::migrate_v1_to_v2
MigrateV1ToV2(plain, now) ==
    IF plain.shape # "v1" THEN LoadErr
    ELSE LoadOk([n \in DOMAIN plain.body |->
                    Entry(plain.body[n], DetectFormat(plain.body[n]), NoneOpt, now, now,
                          NoneOpt)])

\* enum SecretFormat, as serde writes and reads it
Formats == {"raw", "multiline", "pem", "base64", "json"}

\* Vault::parse_v2: serde rejects a payload of another shape and an entry
\* whose format names no variant of SecretFormat; the entries it accepts are
\* taken as they are.
ParseV2(plain) ==
    IF plain.shape # "v2" THEN LoadErr
    ELSE LET secrets == [n \in DOMAIN plain.body |-> DeEntry(plain.body[n])]
         IN IF \E n \in DOMAIN secrets : secrets[n].format \notin Formats THEN LoadErr
            ELSE LoadOk(secrets)

\* Vault::load.  Nonce::from_slice asserts the length of the slice.
Load(file, key, now) ==
    IF ~file.exists THEN LoadOk(EmptyMap)
    ELSE IF ~file.json THEN LoadErr
    ELSE IF ~file.nonceB64 THEN LoadErr
    ELSE IF ~file.ctB64 THEN LoadErr
    ELSE IF file.nonceLen # NONCE_LEN THEN LoadPanic
    ELSE LET d == Decrypt(key, file.nonce, file.ct)
         IN IF ~d.ok THEN LoadErr
            ELSE IF file.version = 1 THEN MigrateV1ToV2(d.plain, now)
            ELSE IF file.version = 2 THEN ParseV2(d.plain)
            ELSE LoadErr

\* a generator that returns the same nonce at every draw
GenerateNonceMutFixed(draws) == 1

\* ChaCha20Poly1305::generate_nonce(&mut OsRng): the draws of the generator
\* are taken to be pairwise distinct; draw n is named n.
GenerateNonce(draws) == draws + 1

\* a save that writes the envelope with the version 1 tag
SaveMutV1(secrets, key, nonce) ==
    Envelope(1, NONCE_LEN, nonce, Encrypt(key, nonce, PayloadV2(secrets)))

\* Vault::save: the envelope written
Save(secrets, key, nonce) ==
    Envelope(CURRENT_VERSION, NONCE_LEN, nonce, Encrypt(key, nonce, PayloadV2(secrets)))

\* a set that stamps an entry it overwrites as created now
SetMutResetsCreated(secrets, name, text, now) ==
    [n \in (DOMAIN secrets) \cup {name} |->
        IF n # name THEN secrets[n]
        ELSE Entry(text, DetectFormat(text), NoneOpt, now, now,
                   IF name \in DOMAIN secrets THEN secrets[n].description ELSE NoneOpt)]

\* Vault::set
Set(secrets, name, text, now) ==
    [n \in (DOMAIN secrets) \cup {name} |->
        IF n # name THEN secrets[n]
        ELSE IF name \in DOMAIN secrets
             THEN [secrets[n] EXCEPT !.value = text, !.format = DetectFormat(text),
                                     !.updated_at = now, !.hash = NoneOpt]
             ELSE Entry(text, DetectFormat(text), NoneOpt, now, now, NoneOpt)]

\* Vault::set_description
SetDescription(secrets, name, description, now) ==
    IF name \in DOMAIN secrets
    THEN [secrets EXCEPT ![name] = [@ EXCEPT !.description = description,
                                              !.updated_at = now]]
    ELSE secrets

\* a set_with_metadata that keeps the hash of the entry it overwrites
SetWithMetadataMutKeepsHash(secrets, name, text, format, description, now) ==
    [n \in (DOMAIN secrets) \cup {name} |->
        IF n # name THEN secrets[n]
        ELSE IF name \in DOMAIN secrets
             THEN [secrets[n] EXCEPT !.value = text, !.format = format,
                                     !.description = description, !.updated_at = now]
             ELSE Entry(text, format, NoneOpt, now, now, description)]

\* Vault::set_with_metadata
SetWithMetadata(secrets, name, text, format, description, now) ==
    [n \in (DOMAIN secrets) \cup {name} |->
        IF n # name THEN secrets[n]
        ELSE IF name \in DOMAIN secrets
             THEN [secrets[n] EXCEPT !.value = text, !.format = format,
                                     !.description = description, !.updated_at = now,
                                     !.hash = NoneOpt]
             ELSE Entry(text, format, NoneOpt, now, now, description)]

\* Vault::set_hash
SetHash(secrets, name, hash) ==
    IF name \in DOMAIN secrets
    THEN [secrets EXCEPT ![name] = [@ EXCEPT !.hash = hash]]
    ELSE secrets

\* Vault::remove
Remove(secrets, name) == [n \in (DOMAIN secrets) \ {name} |-> secrets[n]]

\* Vault::list
List(secrets) == [n \in DOMAIN secrets |-> secrets[n].value]

\* Vault files the program can meet: none, one written by version 1 of the
\* program, and damaged ones.
V1Maps == {[n \in {"A"} |-> JsonText], [n \in Names |-> IF n = "A" THEN RawText ELSE JsonText]}
V1Files == {Envelope(1, NONCE_LEN, 0, Encrypt("k1", 0, PayloadV1(m))) : m \in V1Maps}
GoodFile == Save(EmptyMap, "k1", 0)
DamagedFiles ==
    { [GoodFile EXCEPT !.json = FALSE],
      [GoodFile EXCEPT !.nonceB64 = FALSE],
      [GoodFile EXCEPT !.ctB64 = FALSE],
      [GoodFile EXCEPT !.nonceLen = 8],
      [GoodFile EXCEPT !.nonce = 1],
      [GoodFile EXCEPT !.version = 3],
      [GoodFile EXCEPT !.version = 1] }

\* version 2 files not written by this sequence of calls: one whose entry was
\* created after it was last updated, one whose entry names an unknown format
SkewedFile == Save([n \in {"A"} |-> Entry(RawText, "raw", NoneOpt, 2, 1, NoneOpt)], "k1", 0)
UnknownFormatFile ==
    Save([n \in {"A"} |-> Entry(RawText, "yaml", NoneOpt, 1, 1, NoneOpt)], "k1", 0)
V2Files == {SkewedFile, UnknownFormatFile}

\* `last`, `res`: the last call and its result; `nonces`: key and nonce of
\* every save so far; `written`: the secrets the last save persisted;
\* `migrated`, `v1map`: the secrets in memory are those migrated from a
\* version 1 file holding v1map.
NoVs ==
    [file |-> NoEnvelope, open |-> FALSE, key |-> NoKey, secrets |-> EmptyMap,
     last |-> "-", res |-> "-", nonces |-> <<>>, written |-> EmptyMap,
     migrated |-> FALSE, v1map |-> EmptyMap]
NoIm == [on |-> FALSE]
NoEf == [on |-> FALSE]

\* the variables of the CLI model, at rest
CliAtRest ==
    /\ envMasterKey = NoKey
    /\ backend = "keyring"
    /\ project = NoProject
    /\ masterKeyStore = NoKey
    /\ vaultFile = NoVaultFile
    /\ cfgTargets = {}
    /\ keystore = NoKeystore
    /\ out = Out("-", ExitOk, <<>>, NoMem)
    /\ rb = NoRb

InitVault ==
    /\ CliAtRest
    /\ vs \in {[NoVs EXCEPT !.file = f] : f \in {NoEnvelope} \cup V1Files \cup V2Files \cup DamagedFiles}
    /\ im = NoIm
    /\ ef = NoEf
    /\ gb = NoGb
    /\ fd = NoFd
    /\ mt = NoMt

VaultApiLoad ==
    /\ \E key \in Read(vs.file.exists, Keys, "k1"),
          now \in Read(vs.file.exists /\ vs.file.version = 1, Times, 1) :
          LET r == Load(vs.file, key, now)
              v1 == r.res = "ok" /\ vs.file.exists /\ vs.file.version = 1
          IN vs' = [vs EXCEPT !.open = (r.res = "ok"), !.key = key, !.secrets = r.secrets,
                              !.last = "load", !.res = r.res,
                              !.migrated = v1 \/ (r.res = "ok" /\ vs.last = "save" /\ vs.migrated),
                              !.v1map = IF v1 THEN vs.file.ct.plain.body
                                        ELSE IF r.res = "ok" /\ vs.last = "save" /\ vs.migrated
                                        THEN vs.v1map ELSE EmptyMap]
    /\ UNCHANGED <<cliVars, rb, im, ef, gb, fd, mt>>

VaultApiSet ==
    /\ vs.open
    /\ \E name \in Names, text \in Texts, now \in Times :
          vs' = [vs EXCEPT !.secrets = Set(vs.secrets, name, text, now),
                           !.last = "set", !.res = "ok",
                           !.migrated = FALSE, !.v1map = EmptyMap]
    /\ UNCHANGED <<cliVars, rb, im, ef, gb, fd, mt>>

VaultApiSetDescription ==
    /\ vs.open
    /\ \E name \in Names, description \in Descriptions, now \in Times :
          vs' = [vs EXCEPT !.secrets = SetDescription(vs.secrets, name, description, now),
                           !.last = "set_description",
                           !.res = IF name \in DOMAIN vs.secrets THEN "ok" ELSE "absent",
                           !.migrated = FALSE, !.v1map = EmptyMap]
    /\ UNCHANGED <<cliVars, rb, im, ef, gb, fd, mt>>

VaultApiSave ==
    /\ vs.open
    /\ Len(vs.nonces) < MaxSaves
    /\ LET nonce == GenerateNonce(Len(vs.nonces))
       IN vs' = [vs EXCEPT !.file = Save(vs.secrets, vs.key, nonce),
                           !.nonces = Append(@, [key |-> vs.key, nonce |-> nonce]),
                           !.written = vs.secrets,
                           !.last = "save", !.res = "ok"]
    /\ UNCHANGED <<cliVars, rb, im, ef, gb, fd, mt>>

NextVault == VaultApiLoad \/ VaultApiSet \/ VaultApiSetDescription \/ VaultApiSave

SpecVault == InitVault /\ [][NextVault]_vars

(***************************************************************************)
(* SpecMeta: the mutators of Vault applied in any order to a new vault.    *)
(* `last`, `name`, `now`, `res`: the last call, its key, the reading of    *)
(* the clock it took (0: it takes none) and whether it found the key.      *)
(***************************************************************************)
Hashes == {NoneOpt, "h"}
\* the format handed to set_with_metadata need not be the detected one
MetaFormats == {"pem"}
NoClock == 0

Called(secrets, last, name, now) ==
    [on |-> TRUE, secrets |-> secrets, last |-> last, name |-> name, now |-> now,
     res |-> name \in DOMAIN mt.secrets]

InitMeta ==
    /\ CliAtRest
    /\ vs = NoVs
    /\ im = NoIm
    /\ ef = NoEf
    /\ gb = NoGb
    /\ fd = NoFd
    /\ mt = [on |-> TRUE, secrets |-> EmptyMap, last |-> "new", name |-> "-",
             now |-> NoClock, res |-> FALSE]

MetaSet ==
    /\ mt.on
    /\ \E name \in Names, now \in Times :
          mt' = Called(Set(mt.secrets, name, RawText, now), "set", name, now)
    /\ UNCHANGED <<cliVars, rb, vs, im, ef, gb, fd>>

MetaSetWithMetadata ==
    /\ mt.on
    /\ \E name \in Names, format \in MetaFormats, description \in Descriptions,
          now \in Times :
          mt' = Called(SetWithMetadata(mt.secrets, name, JsonText, format, description, now),
                       "set_with_metadata", name, now)
    /\ UNCHANGED <<cliVars, rb, vs, im, ef, gb, fd>>

MetaSetDescription ==
    /\ mt.on
    /\ \E name \in Names, description \in Descriptions :
          \E now \in Read(name \in DOMAIN mt.secrets, Times, NoClock) :
             mt' = Called(SetDescription(mt.secrets, name, description, now),
                          "set_description", name, now)
    /\ UNCHANGED <<cliVars, rb, vs, im, ef, gb, fd>>

MetaSetHash ==
    /\ mt.on
    /\ \E name \in Names, hash \in Hashes :
          mt' = Called(SetHash(mt.secrets, name, hash), "set_hash", name, NoClock)
    /\ UNCHANGED <<cliVars, rb, vs, im, ef, gb, fd>>

MetaRemove ==
    /\ mt.on
    /\ \E name \in Names :
          mt' = Called(Remove(mt.secrets, name), "remove", name, NoClock)
    /\ UNCHANGED <<cliVars, rb, vs, im, ef, gb, fd>>

NextMeta ==
    MetaSet \/ MetaSetWithMetadata \/ MetaSetDescription \/ MetaSetHash \/ MetaRemove

SpecMeta == InitMeta /\ [][NextMeta]_vars

(***************************************************************************)
(* SpecFormat: detect_format applied to a value.  A value is the           *)
(* whitespace str::trim removes at its two ends and the text in between,   *)
(* the latter by what detect_format and is_valid_base64 read from it.      *)
(***************************************************************************)
Margins == {"", " ", "\n"}
CoreLens == {0, 20, 23, 24, 28}
PadCounts == {0, 1, 2, 3}

\* `pemHead`: starts with "-----BEGIN "; `delim`: starts and ends with a
\* pair of braces or brackets; `parses`: serde_json reads it; `len`: bytes;
\* `alphabet`: every character is alphanumeric, '+', '/' or '='; `pad`: the
\* '=' at its end; `padMid`: an '=' before those; `decodes`: BASE64 decodes
\* it; `innerNl`: it contains a newline.
Cores ==
    {c \in [pemHead : BOOLEAN, delim : BOOLEAN, parses : BOOLEAN, len : CoreLens,
            alphabet : BOOLEAN, pad : PadCounts, padMid : BOOLEAN, decodes : BOOLEAN,
            innerNl : BOOLEAN] :
        /\ c.len = 0 => ~c.pemHead /\ ~c.delim /\ ~c.parses /\ c.alphabet /\ c.pad = 0
                         /\ ~c.padMid /\ ~c.innerNl
        /\ c.pemHead => ~c.delim /\ ~c.alphabet /\ ~c.parses
        /\ c.delim => ~c.alphabet /\ c.pad = 0
        /\ c.parses => c.delim
        /\ c.innerNl => ~c.alphabet
        /\ c.padMid => c.len > 0
        /\ c.decodes => c.len % 4 = 0 /\ c.alphabet /\ c.pad <= 2 /\ ~c.padMid}

FormatValues == [lead : Margins, core : Cores, trail : Margins]

\* value.contains('\n')
ContainsNewline(v) == v.lead = "\n" \/ v.core.innerNl \/ v.trail = "\n"

\* Vault::is_valid_base64
IsValidBase64(c) ==
    IF c.len < 24 THEN FALSE
    ELSE IF c.len % 4 # 0 THEN FALSE
    ELSE IF ~c.alphabet THEN FALSE
    ELSE IF c.pad > 2 THEN FALSE
    ELSE IF c.padMid THEN FALSE
    ELSE c.decodes

\* what detect_format reads from a value: the first four of the trimmed
\* value, the last of the value itself
TextOf(v) ==
    Text("-", v.core.pemHead, v.core.delim /\ v.core.parses, IsValidBase64(v.core),
         v.core.innerNl, ContainsNewline(v))

InitFormat ==
    /\ CliAtRest
    /\ vs = NoVs
    /\ im = NoIm
    /\ ef = NoEf
    /\ gb = NoGb
    /\ mt = NoMt
    /\ fd \in {[on |-> TRUE, value |-> v, done |-> FALSE, format |-> "-"] : v \in FormatValues}

Detect ==
    /\ fd.on /\ ~fd.done
    /\ fd' = [fd EXCEPT !.done = TRUE, !.format = DetectFormat(TextOf(fd.value))]
    /\ UNCHANGED <<cliVars, rb, vs, im, ef, gb, mt>>

NextFormat == Detect

SpecFormat == InitFormat /\ [][NextFormat]_vars

(***************************************************************************)
(* envfile.rs: import_entries, one iteration of its loop per step.  The    *)
(* vault is the name-to-value map that Vault::get and Vault::set act on.   *)
(***************************************************************************)
MaxEntries == 3  \* longest entry sequence imported

ImportValues == {"old", "new"}
ImportEntriesSet == [key : Names, value : ImportValues]
ImportVaults == UNION {[S -> ImportValues] : S \in SUBSET Names}

\* struct ImportStats
ImportStats(added, skipped, overwritten) ==
    [added |-> added, skipped |-> skipped, overwritten |-> overwritten]

\* an import that counts a present key as skipped and replaces its value
ImportOneMutSkipSets(st, entry, overwrite, dry_run) ==
    IF entry.key \in DOMAIN st.secrets THEN
        [stats |-> IF overwrite THEN [st.stats EXCEPT !.overwritten = @ + 1]
                   ELSE [st.stats EXCEPT !.skipped = @ + 1],
         secrets |-> IF ~dry_run THEN VaultSet(st.secrets, entry.key, entry.value)
                     ELSE st.secrets]
    ELSE
        [stats |-> [st.stats EXCEPT !.added = @ + 1],
         secrets |-> IF ~dry_run THEN VaultSet(st.secrets, entry.key, entry.value)
                     ELSE st.secrets]

\* import_entries: the body of the loop, for one entry
ImportOne(st, entry, overwrite, dry_run) ==
    IF entry.key \in DOMAIN st.secrets THEN
        IF overwrite THEN
            [stats |-> [st.stats EXCEPT !.overwritten = @ + 1],
             secrets |-> IF ~dry_run THEN VaultSet(st.secrets, entry.key, entry.value)
                         ELSE st.secrets]
        ELSE
            [stats |-> [st.stats EXCEPT !.skipped = @ + 1], secrets |-> st.secrets]
    ELSE
        [stats |-> [st.stats EXCEPT !.added = @ + 1],
         secrets |-> IF ~dry_run THEN VaultSet(st.secrets, entry.key, entry.value)
                     ELSE st.secrets]

\* `i`: entries processed so far; `start`: the vault import_entries was
\* called with
InitImport ==
    /\ CliAtRest
    /\ vs = NoVs
    /\ ef = NoEf
    /\ gb = NoGb
    /\ fd = NoFd
    /\ mt = NoMt
    /\ im \in [on : {TRUE}, entries : SeqsUpTo(ImportEntriesSet, MaxEntries), i : {0},
               start : ImportVaults, secrets : ImportVaults, overwrite : BOOLEAN,
               dry_run : BOOLEAN, stats : {ImportStats(0, 0, 0)}]
    /\ im.secrets = im.start

ImportEntry ==
    /\ im.on
    /\ im.i < Len(im.entries)
    /\ LET r == ImportOne([stats |-> im.stats, secrets |-> im.secrets],
                          im.entries[im.i + 1], im.overwrite, im.dry_run)
       IN im' = [im EXCEPT !.i = @ + 1, !.stats = r.stats, !.secrets = r.secrets]
    /\ UNCHANGED <<cliVars, rb, vs, ef, gb, fd, mt>>

NextImport == ImportEntry

SpecImport == InitImport /\ [][NextImport]_vars

(***************************************************************************)
(* envfile.rs: parse_env_file and export_env_file on files spelled out     *)
(* character by character, and SpecEnv: a file parsed, its entries         *)
(* imported into an empty vault, the vault exported, the export parsed.    *)
(***************************************************************************)
MaxBodyLen == 6  \* characters of the file parsed

Newline == "\n"
Chars == {"A", "=", "#", " ", Newline}
\* the order of char as Ord for String compares it
CharCode(c) ==
    CASE c = Newline -> 10 [] c = " " -> 32 [] c = "#" -> 35 [] c = "=" -> 61 [] c = "A" -> 65

\* char::is_whitespace
IsWhitespace(c) == c \in {" ", Newline}

\* str::lines: the pieces between newlines; a newline at the end of the
\* content starts no further line
RECURSIVE LinesFrom(_, _, _)
LinesFrom(s, line, done) ==
    IF s = <<>> THEN (IF line = <<>> THEN done ELSE Append(done, line))
    ELSE IF Head(s) = Newline THEN LinesFrom(Tail(s), <<>>, Append(done, line))
    ELSE LinesFrom(Tail(s), Append(line, Head(s)), done)
Lines(s) == LinesFrom(s, <<>>, <<>>)

RECURSIVE TrimStart(_)
TrimStart(s) == IF s # <<>> /\ IsWhitespace(Head(s)) THEN TrimStart(Tail(s)) ELSE s
RECURSIVE TrimEnd(_)
TrimEnd(s) ==
    IF s # <<>> /\ IsWhitespace(s[Len(s)]) THEN TrimEnd(SubSeq(s, 1, Len(s) - 1)) ELSE s
\* str::trim
Trim(s) == TrimEnd(TrimStart(s))

\* str::split_once('='): the position of the first '=', 0 when there is none
SplitOnce(s) ==
    LET at == {i \in 1..Len(s) : s[i] = "="}
    IN IF at = {} THEN 0 ELSE CHOOSE i \in at : \A j \in at : i <= j

EnvSkip == [kind |-> "skip", key |-> <<>>, value |-> <<>>]
EnvError == [kind |-> "error", key |-> <<>>, value |-> <<>>]

\* parse_env_file: the body of the loop, for one line
ParseLine(raw_line) ==
    LET line == Trim(raw_line)
    IN IF line = <<>> \/ Head(line) = "#" THEN EnvSkip
       ELSE LET p == SplitOnce(line)
            IN IF p = 0 THEN EnvError
               ELSE LET key == Trim(SubSeq(line, 1, p - 1))
                        value == SubSeq(line, p + 1, Len(line))
                    IN IF key = <<>> THEN EnvError
                       ELSE [kind |-> "entry", key |-> key, value |-> value]

\* parse_env_file on the lines of the content: the entries in order, or the
\* error of the first malformed line
RECURSIVE ParseFrom(_, _)
ParseFrom(lines, entries) ==
    IF lines = <<>> THEN [ok |-> TRUE, entries |-> entries]
    ELSE LET r == ParseLine(Head(lines))
         IN IF r.kind = "error" THEN [ok |-> FALSE, entries |-> <<>>]
            ELSE IF r.kind = "skip" THEN ParseFrom(Tail(lines), entries)
            ELSE ParseFrom(Tail(lines), Append(entries, [key |-> r.key, value |-> r.value]))
ParseEnvFile(content) == ParseFrom(Lines(content), <<>>)

\* import_entries, the whole loop
RECURSIVE ImportFrom(_, _, _, _)
ImportFrom(entries, st, overwrite, dry_run) ==
    IF entries = <<>> THEN st
    ELSE ImportFrom(Tail(entries), ImportOne(st, Head(entries), overwrite, dry_run),
                    overwrite, dry_run)
ImportEntries(entries, secrets, overwrite, dry_run) ==
    ImportFrom(entries, [stats |-> ImportStats(0, 0, 0), secrets |-> secrets],
               overwrite, dry_run)

\* Ord for String: lexicographic by char
RECURSIVE StrLess(_, _)
StrLess(a, b) ==
    IF b = <<>> THEN FALSE
    ELSE IF a = <<>> THEN TRUE
    ELSE IF CharCode(Head(a)) # CharCode(Head(b)) THEN CharCode(Head(a)) < CharCode(Head(b))
    ELSE StrLess(Tail(a), Tail(b))

\* entries.sort_by(|a, b| a.0.cmp(b.0)) on the keys of the vault
RECURSIVE SortedKeys(_)
SortedKeys(S) ==
    IF S = {} THEN <<>>
    ELSE LET least == CHOOSE k \in S : \A o \in S \ {k} : StrLess(k, o)
         IN <<least>> \o SortedKeys(S \ {least})

\* an export that puts a space after the '='
ExportLineMutSpace(key, value) == key \o <<"=", " ">> \o value \o <<Newline>>

\* export_env_file: one line of the body
ExportLine(key, value) == key \o <<"=">> \o value \o <<Newline>>

\* export_env_file: the body written
RECURSIVE ExportFrom(_, _, _)
ExportFrom(keys, secrets, body) ==
    IF keys = <<>> THEN body
    ELSE ExportFrom(Tail(keys), secrets, body \o ExportLine(Head(keys), secrets[Head(keys)]))
ExportEnvFile(secrets) == ExportFrom(SortedKeys(DOMAIN secrets), secrets, <<>>)

EnvBodies == SeqsUpTo(Chars, MaxBodyLen)

\* `body`: the file parsed first; `entries`: what it parsed to; `secrets`:
\* the vault after the import; `exported`: the file export wrote;
\* `reparsed`: what that file parsed to
InitEnv ==
    /\ CliAtRest
    /\ vs = NoVs
    /\ im = NoIm
    /\ ef \in [on : {TRUE}, phase : {"file"}, body : EnvBodies, entries : {<<>>},
               secrets : {EmptyMap}, exported : {<<>>}, reparsed : {<<>>}]
    /\ gb = NoGb
    /\ fd = NoFd
    /\ mt = NoMt

EnvParse ==
    /\ ef.on /\ ef.phase = "file"
    /\ LET r == ParseEnvFile(ef.body)
       IN ef' = [ef EXCEPT !.phase = IF r.ok THEN "parsed" ELSE "error",
                           !.entries = r.entries]
    /\ UNCHANGED <<cliVars, rb, vs, im, gb, fd, mt>>

EnvImport ==
    /\ ef.on /\ ef.phase = "parsed"
    /\ \E overwrite \in BOOLEAN :
          ef' = [ef EXCEPT !.phase = "imported",
                           !.secrets = ImportEntries(ef.entries, EmptyMap, overwrite,
                                                     FALSE).secrets]
    /\ UNCHANGED <<cliVars, rb, vs, im, gb, fd, mt>>

EnvExport ==
    /\ ef.on /\ ef.phase = "imported"
    /\ \E exists \in BOOLEAN, force \in BOOLEAN :
          ef' = IF exists /\ ~force THEN [ef EXCEPT !.phase = "error"]
                ELSE [ef EXCEPT !.phase = "exported", !.exported = ExportEnvFile(ef.secrets)]
    /\ UNCHANGED <<cliVars, rb, vs, im, gb, fd, mt>>

EnvReparse ==
    /\ ef.on /\ ef.phase = "exported"
    /\ LET r == ParseEnvFile(ef.exported)
       IN ef' = [ef EXCEPT !.phase = IF r.ok THEN "reparsed" ELSE "error",
                           !.reparsed = r.entries]
    /\ UNCHANGED <<cliVars, rb, vs, im, gb, fd, mt>>

NextEnv == EnvParse \/ EnvImport \/ EnvExport \/ EnvReparse

SpecEnv == InitEnv /\ [][NextEnv]_vars

(***************************************************************************)
(* SpecBatch: one call of Github::push or Github::delete, against the set  *)
(* of secret names the repository holds.                                   *)
(***************************************************************************)
MaxBatch == 3  \* keys of one batch

BatchNames == {"A", "B", "C"}

\* the order of the names as Ord for String compares them
NameRank(n) == CASE n = "A" -> 1 [] n = "B" -> 2 [] n = "C" -> 3

\* The secrets of the repository after the requests of `trace`: a PUT
\* answered 201 stores the name, a DELETE answered 204 removes it.
RECURSIVE RemoteAfter(_, _)
RemoteAfter(remote, trace) ==
    IF trace = <<>> THEN remote
    ELSE LET e == Head(trace)
         IN RemoteAfter(IF e.op = "remote_put" /\ e.status = "201" THEN remote \cup {e.key}
                        ELSE IF e.op = "remote_delete" /\ e.status = "204"
                        THEN remote \ {e.key}
                        ELSE remote,
                        Tail(trace))

\* push: `keys` is the iteration order of the HashMap handed to the adapter,
\* `resp` the answer to the PUT of each name; delete: `keys` is the slice
\* handed to the adapter, `resp` the answer to each DELETE in turn.
\* `start`, `remote`: the secrets of the repository before and after.
BatchInput(op, keys, pubkey, resp, remote) ==
    [on |-> TRUE, op |-> op, keys |-> keys, pubkey |-> pubkey, resp |-> resp,
     start |-> remote, remote |-> remote, done |-> FALSE, ok |-> FALSE, trace |-> <<>>]

InitBatch ==
    /\ CliAtRest
    /\ vs = NoVs
    /\ im = NoIm
    /\ ef = NoEf
    /\ fd = NoFd
    /\ mt = NoMt
    /\ \E remote \in SUBSET BatchNames :
          \/ \E S \in SUBSET BatchNames :
                /\ S # {} /\ Cardinality(S) <= MaxBatch
                /\ \E order \in Perms(S), pubkey \in PubKeyOutcomes,
                      resp \in [BatchNames -> PutStatuses] :
                      /\ \A n \in BatchNames \ S : resp[n] = "201"
                      /\ gb = BatchInput("push", order, pubkey, resp, remote)
          \/ \E n \in 0..MaxBatch :
                \E keys \in [1..n -> BatchNames], resp \in DeleteResponses(n) :
                   gb = BatchInput("delete", keys, "ok", resp, remote)

BatchPush ==
    /\ gb.on /\ ~gb.done /\ gb.op = "push"
    /\ LET r == GithubPush(gb.pubkey, gb.keys, gb.resp)
       IN gb' = [gb EXCEPT !.done = TRUE, !.ok = r.ok, !.trace = r.trace,
                           !.remote = RemoteAfter(gb.remote, r.trace)]
    /\ UNCHANGED <<cliVars, rb, vs, im, ef, fd, mt>>

BatchDelete ==
    /\ gb.on /\ ~gb.done /\ gb.op = "delete"
    /\ LET r == GithubDelete(gb.keys, gb.resp)
       IN gb' = [gb EXCEPT !.done = TRUE, !.ok = r.ok, !.trace = r.trace,
                           !.remote = RemoteAfter(gb.remote, r.trace)]
    /\ UNCHANGED <<cliVars, rb, vs, im, ef, fd, mt>>

NextBatch == BatchPush \/ BatchDelete

SpecBatch == InitBatch /\ [][NextBatch]_vars

(***************************************************************************)
(* SpecRepo: resolve_repo_binding applied to every combination of inputs.  *)
(***************************************************************************)
RbSlugs == {"org/a", "org/b", "org/c", NoSlug}

InitRepo ==
    /\ envMasterKey = NoKey
    /\ backend = "keyring"
    /\ project = NoProject
    /\ masterKeyStore = NoKey
    /\ vaultFile = NoVaultFile
    /\ cfgTargets = {}
    /\ keystore = NoKeystore
    /\ out = Out("-", ExitOk, <<>>, NoMem)
    /\ rb \in [detected : RbSlugs, bound : RbSlugs, provided : RbSlugs, verb : Verbs,
               done : {FALSE}, kind : {"-"}, slug : {NoSlug}, msg : {<<>>}]
    /\ vs = NoVs
    /\ im = NoIm
    /\ ef = NoEf
    /\ gb = NoGb
    /\ fd = NoFd
    /\ mt = NoMt

Reconcile ==
    /\ ~rb.done
    /\ LET r == ResolveRepoBinding(rb.detected, rb.bound, rb.provided, rb.verb)
       IN rb' = [rb EXCEPT !.done = TRUE, !.kind = r.kind, !.slug = r.slug, !.msg = r.msg]
    /\ UNCHANGED <<cliVars, vs, im, ef, gb, fd, mt>>

NextRepo == Reconcile

SpecRepo == InitRepo /\ [][NextRepo]_vars

Init ==
    /\ envMasterKey \in Keys \cup {NoKey}
    /\ backend \in Backends
    /\ project = NoProject
    /\ masterKeyStore = NoKey
    /\ vaultFile = NoVaultFile
    /\ cfgTargets = {}
    /\ keystore = NoKeystore
    /\ out = Out("-", ExitOk, <<>>, NoMem)
    /\ rb = NoRb
    /\ vs = NoVs
    /\ im = NoIm
    /\ ef = NoEf
    /\ gb = NoGb
    /\ fd = NoFd
    /\ mt = NoMt

\* main(): process::exit ends the invocation.  The memory keystore is a
\* static of the process and ends with it.
Exit ==
    /\ ~Idle
    /\ out' = Out("-", ExitOk, <<>>, NoMem)
    /\ keystore' = IF backend = "memory" THEN NoKeystore ELSE keystore
    /\ UNCHANGED <<envMasterKey, backend, project, masterKeyStore, vaultFile,
                   cfgTargets, rb, vs, im, ef, gb, fd, mt>>

Next ==
    \/ CmdInit
    \/ CmdTargetSet
    \/ CmdTargetRevoke
    \/ CmdSecretSet
    \/ CmdSecretRemove
    \/ CmdSecretRevoke
    \/ CmdPush
    \/ CmdPrune
    \/ CmdConfigUnset
    \/ Exit

Spec == Init /\ [][Next]_vars

\* SpecTarget: the commands that write the target table and the keystore.
NextTarget ==
    \/ CmdTargetSet
    \/ CmdTargetRevoke
    \/ Exit

SpecTarget == Init /\ [][NextTarget]_vars

(***************************************************************************)
(* Properties.                                                             *)
(***************************************************************************)

\* C1: after a successful init, Vault::load of vault.enc with the master key
\* that init stored in the credential store succeeds and yields an empty
\* vault: the key that encrypted the initial vault is the key minted and
\* stored.
InitVaultReadableWithStoredKey ==
    (out.cmd = "init" /\ out.exit = ExitOk) =>
        /\ vaultFile.key = masterKeyStore
        /\ VaultLoad(vaultFile, masterKeyStore).ok
        /\ VaultLoad(vaultFile, masterKeyStore).secrets = EmptyMap

\* C2: a prune whose remote delete fails (a transport error, or a status that
\* is neither success nor 404, on any key) leaves vault.enc as it was, holds no
\* vault in memory and performs no local removal or save.
PruneFailureKeepsVault ==
    [][(/\ out'.cmd = "prune"
        /\ \/ HasEv(out'.trace, "remote_delete", "500")
           \/ HasEv(out'.trace, "remote_delete", "transport"))
       => /\ vaultFile' = vaultFile
          /\ ~out'.mem.loaded
          /\ ~HasOp(out'.trace, "vault_remove")
          /\ ~HasOp(out'.trace, "vault_save")]_vars

\* a prune failed remotely on a key the vault file holds
PruneFailureKeepsVaultWitness ==
    /\ out.cmd = "prune"
    /\ out.exit # ExitOk
    /\ \E i \in DOMAIN out.trace :
          /\ out.trace[i].op = "remote_delete"
          /\ out.trace[i].status \in {"500", "transport"}
          /\ out.trace[i].key \in DOMAIN vaultFile.secrets

\* C3: after a prune (--yes, no dry run) whose remote delete succeeded for
\* every requested key, none of the requested keys is left in the local vault.
PruneSuccessRemovesLocally ==
    (/\ out.cmd = "prune"
     /\ out.exit = ExitOk
     /\ HasOp(out.trace, "remote_delete")
     /\ \A i \in DOMAIN out.trace :
           out.trace[i].op = "remote_delete" => out.trace[i].status = "204")
    => \A i \in DOMAIN out.trace :
          out.trace[i].op = "remote_delete" =>
              out.trace[i].key \notin DOMAIN vaultFile.secrets

\* C4: in secret revoke, revoke_secret is called before any vault mutation;
\* when it returns an error the secret is still in the vault and vault.enc is
\* unchanged; the key is removed and the vault saved only after it succeeded.
SecretRevokeRemoteFirst ==
    [][out'.cmd = "secret_revoke" =>
        /\ Precedes(out'.trace, "revoke_secret", "vault_remove")
        /\ Precedes(out'.trace, "revoke_secret", "vault_save")
        /\ HasEv(out'.trace, "revoke_secret", "err") =>
              /\ vaultFile' = vaultFile
              /\ \A i \in DOMAIN out'.trace :
                    out'.trace[i].op = "revoke_secret" =>
                        /\ out'.trace[i].key \in DOMAIN out'.mem.secrets
                        /\ out'.trace[i].key \in DOMAIN vaultFile'.secrets
        /\ ~HasEv(out'.trace, "revoke_secret", "ok") =>
              /\ vaultFile' = vaultFile
              /\ ~HasOp(out'.trace, "vault_remove")
              /\ ~HasOp(out'.trace, "vault_save")]_vars

\* revoke_secret was called for a stored secret and returned an error
SecretRevokeRemoteFirstWitness ==
    /\ out.cmd = "secret_revoke"
    /\ \E i \in DOMAIN out.trace :
          /\ out.trace[i].op = "revoke_secret"
          /\ out.trace[i].status = "err"
          /\ out.trace[i].key \in DOMAIN vaultFile.secrets

AuthRefIffKeystoreRecord ==
    (HasOp(out.trace, "config_write") \/ HasOp(out.trace, "keystore_remove")) =>
        \A t \in Targets : (t \in cfgTargets) <=> (AuthRef(t) \in DOMAIN keystore.map)

\* C7: a push for a target without a stored token exits with code 2, JSON
\* code NOT_AUTHENTICATED, and makes no remote call.
PushWithoutTokenNotAuthenticated ==
    (out.cmd = "push" /\ HasEv(out.trace, "get_target_token", "none")) =>
        /\ out.exit = ExitNotAuthenticated
        /\ JsonCode(out.exit) = "NOT_AUTHENTICATED"
        /\ ~HasOp(out.trace, "remote_get_public_key")
        /\ ~HasOp(out.trace, "remote_put")

\* C8: a prune whose delete received a status that is neither success nor 404
\* exits with code 4, JSON code TARGET_REJECTED.
PruneRejectedExit4 ==
    (out.cmd = "prune" /\ HasEv(out.trace, "remote_delete", "500")) =>
        /\ out.exit = ExitTargetRejected
        /\ JsonCode(out.exit) = "TARGET_REJECTED"

BoundMismatchIsGitError ==
    (rb.done /\ rb.provided # NoSlug /\ rb.bound # NoSlug /\ rb.bound # rb.provided)
        => rb.kind = "git"

\* C13: vault.enc is at every moment either the complete old envelope or the
\* complete new one: no save leaves a partially written file behind.
VaultFileNeverPartial == vaultFile # GarbledFile

\* the commands behind the --yes gate
GatedCmds == {"prune", "secret_revoke", "target_revoke", "config_unset", "secret_remove"}
RemoteOps == {"remote_delete", "remote_put", "remote_get_public_key", "revoke_secret",
              "revoke_auth_token"}
LocalMutOps == {"project_toml_write", "master_key_store", "vault_save", "config_write",
                "keystore_set", "keystore_remove"}
NoOpIn(trace, ops) == \A i \in 1..Len(trace) : trace[i].op \notin ops

\* a gated command that always reaches its gate: the three that check --yes
\* before anything else, and the two secret commands once the vault is open
ReachesGate(o) ==
    o.cmd \in {"prune", "target_revoke", "config_unset"} \/ o.mem.loaded

DryRunNeverMutates ==
    /\ (out.cmd = "init" /\ out.dry_run) => NoOpIn(out.trace, LocalMutOps)
    /\ (out.cmd \in GatedCmds /\ out.dry_run /\ ~out.yes)
          => (out.exit = ExitOk /\ NoOpIn(out.trace, RemoteOps \cup LocalMutOps))

\* C16: prune with CI set in the environment and without --yes deletes
\* nothing and succeeds, as a dry run does.
PruneUnderCiIsDryRun ==
    (out.cmd = "prune" /\ out.ci /\ ~out.yes)
        => (out.exit = ExitOk /\ NoOpIn(out.trace, {"remote_delete"}))

\* C11: a vault saved and then loaded from the same path under the same key
\* holds the entries that were saved: the same name-to-value map, and every
\* entry with its format, description and timestamps.
SaveLoadRoundTrip ==
    (vs.last = "load" /\ Len(vs.nonces) > 0 /\ vs.key = vs.nonces[Len(vs.nonces)].key)
        => /\ vs.res = "ok"
           /\ List(vs.secrets) = List(vs.written)
           /\ vs.secrets = vs.written

\* two entries, one of them json with a description, saved and loaded back
SaveLoadRoundTripWitness ==
    /\ vs.last = "load"
    /\ vs.res = "ok"
    /\ Len(vs.nonces) > 0
    /\ DOMAIN vs.secrets = Names
    /\ vs.secrets["A"].format = "json"
    /\ vs.secrets["A"].description = "d"
    /\ vs.secrets["A"].created_at # vs.secrets["A"].updated_at
    /\ vs.secrets["B"].format = "raw"

SaveNoncesDistinct ==
    /\ \A i, j \in 1..Len(vs.nonces) : i # j => vs.nonces[i] # vs.nonces[j]
    /\ vs.last = "save"
          => /\ vs.file.nonceLen = NONCE_LEN
             /\ vs.file.nonce = vs.nonces[Len(vs.nonces)].nonce
             /\ vs.file.ct.nonce = vs.file.nonce

\* two saves of the vault under one key
SaveNoncesDistinctWitness ==
    /\ Len(vs.nonces) = 2
    /\ vs.nonces[1].key = vs.nonces[2].key
    /\ vs.last = "save"

\* C20: Vault::load of a malformed envelope returns an error and never
\* panics, also when the nonce decodes to other than 12 bytes.
LoadNeverPanics ==
    vs.last = "load" => vs.res \in {"ok", "err"}

\* positions among the first i entries whose key is k
ImportPositions(k) == {p \in 1..im.i : im.entries[p].key = k}
ImportKeysSeen == {im.entries[p].key : p \in 1..im.i}
MinOf(S) == CHOOSE x \in S : \A y \in S : x <= y
MaxOf(S) == CHOOSE x \in S : \A y \in S : x >= y

SameUpToOrder(s, t) ==
    /\ Len(s) = Len(t)
    /\ \A e \in Range(s) \cup Range(t) :
          Cardinality({i \in 1..Len(s) : s[i] = e}) = Cardinality({i \in 1..Len(t) : t[i] = e})

EnvKeysDistinct(s) == \A i, j \in 1..Len(s) : i # j => s[i].key # s[j].key

\* the export was written and read back, or the run has not come that far
EnvReadBack == ef.on /\ ef.phase = "reparsed"
EnvExportRead == ef.on /\ ef.phase = "exported" => ParseEnvFile(ef.exported).ok

\* C18 (as stated): for every file that parses to E, the export of the vault
\* E was imported into parses to the entries of E, up to their order: no
\* entry of E is missing from it and none is new.
EnvRoundTrip ==
    /\ EnvExportRead
    /\ EnvReadBack => Range(ef.reparsed) = Range(ef.entries)

\* C18 (amended): for every file that parses to entries E with pairwise
\* distinct keys, the export of the vault E was imported into parses, and
\* parses to the entries of E, up to their order.
EnvRoundTripDistinctKeys ==
    /\ EnvExportRead
    /\ (EnvReadBack /\ EnvKeysDistinct(ef.entries))
          => SameUpToOrder(ef.reparsed, ef.entries)

\* two entries that the export puts in the other order
EnvRoundTripDistinctKeysWitness ==
    /\ EnvReadBack
    /\ Len(ef.entries) = 2
    /\ EnvKeysDistinct(ef.entries)
    /\ ef.reparsed # ef.entries

\* C29: the reconciliation written inline in the push and prune handlers
\* yields, for every combination of detected, bound and provided, the slug or
\* the error kind (and message) that resolve_repo_binding yields with the
\* verb of the handler.
InlineEqualsResolve ==
    rb.done =>
        LET inline == IF rb.verb = "push"
                      THEN InlineRepoPush(rb.detected, rb.bound, rb.provided)
                      ELSE InlineRepoPrune(rb.detected, rb.bound, rb.provided)
        IN /\ inline.kind = rb.kind
           /\ inline.slug = rb.slug
           /\ inline.msg = rb.msg
           /\ RepoExit(inline.kind) = RepoExit(rb.kind)

\* push with --repo that disagrees with the detected and with the bound repo:
\* both report the user error
InlineEqualsResolveWitness ==
    /\ rb.done
    /\ rb.verb = "push"
    /\ rb.provided # NoSlug
    /\ rb.detected # NoSlug /\ rb.detected # rb.provided
    /\ rb.bound # NoSlug /\ rb.bound # rb.provided
    /\ InlineRepoPush(rb.detected, rb.bound, rb.provided).kind = "user"
    /\ rb.kind = "user"

\* C30: when resolve_repo_binding succeeds and provided or detected is set,
\* every one of detected, bound and provided that is set equals the slug
\* returned; the result is none exactly when all three are none.
ResolveNeverDisagrees ==
    (rb.done /\ rb.kind = "ok") =>
        /\ (rb.provided # NoSlug \/ rb.detected # NoSlug) =>
              \A x \in {rb.detected, rb.bound, rb.provided} : x # NoSlug => x = rb.slug
        /\ rb.slug = NoSlug <=>
              (rb.detected = NoSlug /\ rb.bound = NoSlug /\ rb.provided = NoSlug)
        /\ rb.slug # NoSlug => rb.slug \in {rb.detected, rb.bound, rb.provided}

\* all three set and equal: the call succeeds with that slug
ResolveNeverDisagreesWitness ==
    /\ rb.done
    /\ rb.kind = "ok"
    /\ rb.provided # NoSlug
    /\ rb.detected = rb.provided
    /\ rb.bound = rb.provided
    /\ rb.slug = rb.provided

\* C24: import_entries with dry_run = true leaves the vault as it was and
\* returns the counters that import_entries with dry_run = false returns on
\* the same entries, vault and overwrite flag, also when a key occurs more
\* than once among the entries.
ImportDryRunCountsAsRealRun ==
    (im.on /\ im.i = Len(im.entries)) =>
        /\ im.dry_run => im.secrets = im.start
        /\ im.stats = ImportEntries(im.entries, im.start, im.overwrite, ~im.dry_run).stats

\* C21: in a batch push a PUT is attempted for every key of the batch, also
\* after the PUT of an earlier key was answered with a non-success status or
\* failed in transport.
PushAttemptsEveryKey ==
    (gb.on /\ gb.done /\ gb.op = "push" /\ gb.pubkey = "ok")
        => \A k \in Range(gb.keys) :
              \E i \in 1..Len(gb.trace) :
                 gb.trace[i].op = "remote_put" /\ gb.trace[i].key = k

\* the index of the first DELETE that ends the batch, 0 when none does
FirstRejected(resp, n) ==
    LET bad == {i \in 1..n : resp[i] \notin {"204", "404"}}
    IN IF bad = {} THEN 0 ELSE CHOOSE i \in bad : \A j \in bad : i <= j

\* C22: a batch delete issues one DELETE per key in the order of the keys; a
\* 404 is passed over; the first answer that is neither success nor 404 ends
\* the batch with an error, no DELETE is issued for the keys after it, and
\* the keys deleted before it stay deleted.
DeleteStopsAtFirstRejected ==
    (gb.on /\ gb.done /\ gb.op = "delete") =>
        LET stop == FirstRejected(gb.resp, Len(gb.keys))
            n == IF stop = 0 THEN Len(gb.keys) ELSE stop
        IN /\ Len(gb.trace) = n
           /\ \A i \in 1..n : gb.trace[i] = EvK("remote_delete", gb.keys[i], gb.resp[i])
           /\ gb.ok <=> stop = 0
           /\ gb.remote = gb.start \ {gb.keys[i] : i \in {j \in 1..n : gb.resp[j] = "204"}}

\* A deleted, the DELETE of B rejected, no DELETE of C
DeleteStopsAtFirstRejectedWitness ==
    /\ gb.on /\ gb.done /\ gb.op = "delete"
    /\ gb.keys = <<"A", "B", "C">>
    /\ gb.resp[1] = "204" /\ gb.resp[2] = "500"
    /\ gb.start = BatchNames
    /\ gb.remote = {"B", "C"}
    /\ Len(gb.trace) = 2
    /\ ~gb.ok

\* C23: within one push and within one prune the PUTs and the DELETEs are
\* issued in ascending order of the key names.
RequestsInSortedOrder ==
    out.cmd \in {"push", "prune"} =>
        \A i, j \in 1..Len(out.trace) :
            (/\ i < j
             /\ out.trace[i].op \in {"remote_put", "remote_delete"}
             /\ out.trace[j].op = out.trace[i].op)
                => NameRank(out.trace[i].key) <= NameRank(out.trace[j].key)

\* C25: while a name stays in the vault no mutator changes its created_at;
\* set, set_with_metadata and set_description stamp the entry they act on
\* with the current time as updated_at, so that a clock reading not before
\* the entry's creation leaves created_at <= updated_at.
CreatedAtFixedUpdatedAtStamped ==
    [][mt.on =>
         /\ \A n \in DOMAIN mt.secrets \cap DOMAIN mt'.secrets :
               mt'.secrets[n].created_at = mt.secrets[n].created_at
         /\ (mt'.last \in {"set", "set_with_metadata"}
               \/ (mt'.last = "set_description" /\ mt'.res))
               => /\ mt'.name \in DOMAIN mt'.secrets
                  /\ mt'.secrets[mt'.name].updated_at = mt'.now
                  /\ (mt'.res /\ mt.secrets[mt'.name].created_at <= mt'.now)
                        => mt'.secrets[mt'.name].created_at
                              <= mt'.secrets[mt'.name].updated_at
                  /\ ~mt'.res => mt'.secrets[mt'.name].created_at = mt'.now]_vars

\* A, created at 1, was set again at 2
CreatedAtFixedUpdatedAtStampedWitness ==
    /\ mt.on /\ mt.last = "set" /\ mt.res /\ mt.name = "A" /\ mt.now = 2
    /\ mt.secrets["A"].created_at = 1
    /\ mt.secrets["A"].updated_at = 2

LoadedEntriesWellFormed ==
    (vs.last = "load" /\ vs.res = "ok") =>
        \A n \in DOMAIN vs.secrets :
            /\ vs.secrets[n].created_at <= vs.secrets[n].updated_at
            /\ vs.secrets[n].format \in Formats

\* the format by the rules in their stated order, the base64 rule asking
\* that the value contain no newline
FormatByRules(v) ==
    IF v.core.pemHead THEN "pem"
    ELSE IF v.core.delim /\ v.core.parses THEN "json"
    ELSE IF ~ContainsNewline(v) /\ IsValidBase64(v.core) THEN "base64"
    ELSE IF ContainsNewline(v) THEN "multiline"
    ELSE "raw"

\* C28: detect_format returns the format of the first rule that matches, in
\* the order PEM, JSON, Base64, Multiline, Raw; a value that contains a
\* newline is never base64, and a delimited value that does not parse is
\* never json.
DetectFormatFollowsRules ==
    (fd.on /\ fd.done) =>
        /\ fd.format = FormatByRules(fd.value)
        /\ ContainsNewline(fd.value) => fd.format # "base64"
        /\ (fd.value.core.delim /\ ~fd.value.core.parses) => fd.format # "json"
====
